---- MODULE Spec2Model ----
(***************************************************************************)
(* Model of app.py: an HTTP front end (run_http / HttpHandler) that relays *)
(* form submissions as JSON datagrams (socket_client) to a UDP back end    *)
(* (socket_server) which persists them, keyed by receipt time, into one    *)
(* JSON file (storage_handler); the main thread starts both as threads     *)
(* sharing one threading.Event and stops them on KeyboardInterrupt.        *)
(*                                                                         *)
(* Text is a sequence of one-character strings.  Two tokens stand for runs *)
(* of ordinary letters: "L" is a run of BlockLen letters and "l" is what   *)
(* is left of such a run when a receive buffer cuts it.  A Python str is   *)
(* [t |-> "s", s |-> text]; a Python dict is [t |-> "o", items |-> seq of  *)
(* [k |-> text, v |-> value]] in insertion order.                          *)
(***************************************************************************)
EXTENDS Integers, Sequences, FiniteSets, TLC

\* ---------------------------------------------------------------- bounds
MaxPosts == 2   \* POST requests handled
MaxQueue == 2   \* datagrams the UDP socket's receive queue holds
MaxClock == 2   \* distinct readings of datetime.now()
MaxFields == 2  \* fields of a Submission put through the codec
MaxAppends == 2 \* storage_handler calls made on one file
MaxPairs == 3   \* key=value pairs in one form body
BlockLen == 600 \* letters in one "L" run

\* ------------------------------------------------------ program constants
RecvBuf == 1024      \* sock.recvfrom(1024)
Indent  == 2         \* json.dumps(file_dict, indent=2)
None    == 0 - 1     \* json.dumps(message): indent=None

\* ------------------------------------------------------------ Python values
PyStr(s)      == [t |-> "s", s |-> s]
PyDict(items) == [t |-> "o", items |-> items]
IsStr(v)      == v.t = "s"
IsDict(v)     == v.t = "o"
EmptyDict     == PyDict(<<>>)

RECURSIVE Concat(_)
\* ''.join(parts)
Concat(parts) ==
  IF parts = <<>> THEN <<>> ELSE Head(parts) \o Concat(Tail(parts))

RECURSIVE Join(_, _)
\* sep.join(parts)
Join(sep, parts) ==
  IF parts = <<>> THEN <<>>
  ELSE IF Len(parts) = 1 THEN parts[1]
  ELSE parts[1] \o sep \o Join(sep, Tail(parts))

Keys(d) == {d.items[i].k : i \in 1..Len(d.items)}

\* d[key]
DictGet(d, key) ==
  LET i == CHOOSE j \in 1..Len(d.items) : d.items[j].k = key
  IN  d.items[i].v

\* d[key] = val: an existing key keeps its position and takes the new
\* value, a new key goes last
DictSet(d, key, val) ==
  IF key \in Keys(d)
  THEN PyDict([i \in 1..Len(d.items) |->
                 IF d.items[i].k = key THEN [k |-> key, v |-> val]
                 ELSE d.items[i]])
  ELSE PyDict(Append(d.items, [k |-> key, v |-> val]))

\* dict equality: same keys, same value under each key, order ignored
DictEq(a, b) ==
  /\ Keys(a) = Keys(b)
  /\ \A key \in Keys(a) : DictGet(a, key) = DictGet(b, key)

\* ------------------------------------------ urllib.parse / form parsing
\* urllib.parse.unquote_plus, one token at a time: '+' is a space and a
\* percent escape is the character it names
UnquoteTok(c) ==
  CASE c = "+"   -> " "
    [] c = "%3D" -> "="
    [] c = "%26" -> "&"
    [] c = "%22" -> "\""
    [] c = "%5C" -> "\\"
    [] OTHER     -> c

UnquotePlus(body) == [i \in 1..Len(body) |-> UnquoteTok(body[i])]

RECURSIVE SplitFrom(_, _, _, _, _)
SplitFrom(s, sep, i, cur, acc) ==
  IF i > Len(s) THEN Append(acc, cur)
  ELSE IF s[i] = sep THEN SplitFrom(s, sep, i + 1, <<>>, Append(acc, cur))
  ELSE SplitFrom(s, sep, i + 1, Append(cur, s[i]), acc)

\* str.split(sep): one more piece than there are separators
Split(s, sep) == SplitFrom(s, sep, 1, <<>>, <<>>)

RECURSIVE DictFromPairs_FirstWins(_, _)
\* a comprehension that keeps the value a key already has
DictFromPairs_FirstWins(pairs, d) ==
  IF pairs = <<>> THEN d
  ELSE DictFromPairs_FirstWins(
         Tail(pairs),
         IF Head(pairs)[1] \in Keys(d) THEN d
         ELSE DictSet(d, Head(pairs)[1], PyStr(Head(pairs)[2])))

RECURSIVE DictFromPairs(_, _)
\* {key: val for key, val in data_list}, later pairs overwrite earlier ones
DictFromPairs(pairs, d) ==
  IF pairs = <<>> THEN d
  ELSE DictFromPairs(Tail(pairs),
                     DictSet(d, Head(pairs)[1], PyStr(Head(pairs)[2])))

\* do_POST, lines 102-104: the parsed form, or ok = FALSE where unpacking
\* an element of data_list into (key, val) raises ValueError
ParseForm(body) ==
  LET data_parsed == UnquotePlus(body)
      pieces      == Split(data_parsed, "&")
      data_list   == [i \in 1..Len(pieces) |-> Split(pieces[i], "=")]
  IN  IF \A i \in 1..Len(data_list) : Len(data_list[i]) = 2
      THEN [ok |-> TRUE, dict |-> DictFromPairs(data_list, EmptyDict)]
      ELSE [ok |-> FALSE, dict |-> EmptyDict]

\* ------------------------------------------------------------ json.dumps
\* a json.dumps that writes every character as it is
EscapeTok_Raw(c) == <<c>>

\* the escapes json.dumps writes inside a string literal
EscapeTok(c) ==
  CASE c = "\"" -> <<"\\", "\"">>
    [] c = "\\" -> <<"\\", "\\">>
    [] c = "\n" -> <<"\\", "n">>
    [] OTHER    -> <<c>>

\* a JSON string literal
DumpsStr(s) ==
  <<"\"">> \o Concat([i \in 1..Len(s) |-> EscapeTok(s[i])]) \o <<"\"">>

Spaces(n) == [i \in 1..n |-> " "]

RECURSIVE Dumps(_, _, _)
\* json.dumps(v, indent=indent) at nesting depth level
Dumps(v, indent, level) ==
  IF IsStr(v) THEN DumpsStr(v.s)
  ELSE IF v.items = <<>> THEN <<"{", "}">>
  ELSE
    LET members == [i \in 1..Len(v.items) |->
                      DumpsStr(v.items[i].k) \o <<":", " ">>
                        \o Dumps(v.items[i].v, indent, level + 1)]
    IN  IF indent = None
        THEN <<"{">> \o Join(<<",", " ">>, members) \o <<"}">>
        ELSE <<"{", "\n">> \o Spaces(indent * (level + 1))
               \o Join(<<",", "\n">> \o Spaces(indent * (level + 1)), members)
               \o <<"\n">> \o Spaces(indent * level) \o <<"}">>

\* ------------------------------------------------------------ json.loads
IsWs(c) == c \in {" ", "\n"}

RECURSIVE SkipWs(_, _)
SkipWs(s, i) ==
  IF i <= Len(s) /\ IsWs(s[i]) THEN SkipWs(s, i + 1) ELSE i

Fail == [ok |-> FALSE, val |-> PyStr(<<>>), next |-> 0]

RECURSIVE ScanStr(_, _, _)
\* the body of a string literal from position i, up to its closing quote
ScanStr(s, i, acc) ==
  IF i > Len(s) THEN Fail
  ELSE IF s[i] = "\"" THEN [ok |-> TRUE, val |-> PyStr(acc), next |-> i + 1]
  ELSE IF s[i] = "\n" THEN Fail
  ELSE IF s[i] = "\\"
    THEN IF i + 1 > Len(s) THEN Fail
         ELSE IF s[i + 1] \in {"\"", "\\"}
           THEN ScanStr(s, i + 2, Append(acc, s[i + 1]))
         ELSE IF s[i + 1] = "n" THEN ScanStr(s, i + 2, Append(acc, "\n"))
         ELSE Fail
  ELSE ScanStr(s, i + 1, Append(acc, s[i]))

RECURSIVE ParseVal(_, _)
RECURSIVE ParseMembers(_, _, _)

\* the members of an object from position i (after '{' or ','), up to '}'
ParseMembers(s, i, d) ==
  LET ki == SkipWs(s, i) IN
  IF ki > Len(s) \/ s[ki] # "\"" THEN Fail
  ELSE
    LET key == ScanStr(s, ki + 1, <<>>) IN
    IF ~key.ok THEN Fail
    ELSE
      LET ci == SkipWs(s, key.next) IN
      IF ci > Len(s) \/ s[ci] # ":" THEN Fail
      ELSE
        LET val == ParseVal(s, SkipWs(s, ci + 1)) IN
        IF ~val.ok THEN Fail
        ELSE
          LET d2 == DictSet(d, key.val.s, val.val)
              ei == SkipWs(s, val.next)
          IN  IF ei > Len(s) THEN Fail
              ELSE IF s[ei] = "," THEN ParseMembers(s, ei + 1, d2)
              ELSE IF s[ei] = "}"
                THEN [ok |-> TRUE, val |-> d2, next |-> ei + 1]
              ELSE Fail

\* one JSON value at position i: a string or an object
ParseVal(s, i) ==
  IF i > Len(s) THEN Fail
  ELSE IF s[i] = "\"" THEN ScanStr(s, i + 1, <<>>)
  ELSE IF s[i] = "{"
    THEN LET j == SkipWs(s, i + 1) IN
         IF j <= Len(s) /\ s[j] = "}"
         THEN [ok |-> TRUE, val |-> EmptyDict, next |-> j + 1]
         ELSE ParseMembers(s, i + 1, EmptyDict)
  ELSE Fail

\* json.loads(text): ok = FALSE where it raises JSONDecodeError
Loads(text) ==
  LET r == ParseVal(text, SkipWs(text, 1)) IN
  IF r.ok /\ SkipWs(text, r.next) = Len(text) + 1
  THEN [ok |-> TRUE, val |-> r.val]
  ELSE [ok |-> FALSE, val |-> PyStr(<<>>)]

\* --------------------------------------------------------- datagram size
Width(c) == IF c = "L" THEN BlockLen ELSE 1

RECURSIVE ByteLen(_)
\* len(data)
ByteLen(s) == IF s = <<>> THEN 0 ELSE Width(Head(s)) + ByteLen(Tail(s))

RECURSIVE Take(_, _)
\* data[:n]; a run of letters cut by the limit is left as "l"
Take(s, n) ==
  IF s = <<>> \/ n <= 0 THEN <<>>
  ELSE IF Width(Head(s)) <= n
    THEN <<Head(s)>> \o Take(Tail(s), n - Width(Head(s)))
  ELSE <<"l">>

\* sock.recvfrom(1024): the datagram's first 1024 bytes
RecvFrom(payload) == Take(payload, RecvBuf)

\* ------------------------------------------------------- storage_handler
\* str(datetime.now()) for the clock reading n
DigitChars == <<"0", "1", "2", "3", "4", "5", "6", "7", "8", "9">>
TsKey(n) == <<"T", DigitChars[n + 1]>>

Absent == [exists |-> FALSE, text |-> <<>>]
FileOf(text) == [exists |-> TRUE, text |-> text]

\* a storage_handler that starts from an empty mapping when the file's
\* contents do not load as a dict
LoadStep_ResetsCorrupt(data, f) ==
  LET message == Loads(data)
      loaded  == IF f.exists THEN Loads(f.text)
                 ELSE [ok |-> TRUE, val |-> EmptyDict]
  IN  [ok        |-> message.ok,
       message   |-> message.val,
       file_dict |-> IF loaded.ok /\ IsDict(loaded.val) THEN loaded.val
                     ELSE EmptyDict]

\* storage_handler, lines 188-194: message and file_dict, or ok = FALSE
\* where json.loads raises (on the datagram or on the file's contents)
LoadStep(data, f) ==
  LET message == Loads(data)
      loaded  == IF f.exists THEN Loads(f.text)
                 ELSE [ok |-> TRUE, val |-> EmptyDict]
  IN  [ok        |-> message.ok /\ loaded.ok,
       message   |-> message.val,
       file_dict |-> loaded.val]

\* an update that keeps the value a key already has
DictUpdate_SetDefault(file_dict, key, message) ==
  IF key \in Keys(file_dict) THEN file_dict ELSE DictSet(file_dict, key, message)

\* file_dict.update(formatted_msg), line 195
DictUpdate(file_dict, key, message) == DictSet(file_dict, key, message)

\* a storage_handler that writes the new entry alone
WriteStep_OnlyNew(file_dict, key, message) ==
  IF IsDict(file_dict)
  THEN [ok |-> TRUE, text |-> Dumps(DictSet(EmptyDict, key, message), Indent, 0)]
  ELSE [ok |-> FALSE, text |-> <<>>]

\* a storage_handler that writes the file back without the new entry
WriteStep_NoInsert(file_dict, key, message) ==
  IF IsDict(file_dict)
  THEN [ok |-> TRUE, text |-> Dumps(file_dict, Indent, 0)]
  ELSE [ok |-> FALSE, text |-> <<>>]

\* storage_handler, lines 195-198: the text written to the file, or
\* ok = FALSE where file_dict is no dict and has no update()
WriteStep(file_dict, key, message) ==
  IF IsDict(file_dict)
  THEN [ok |-> TRUE,
        text |-> Dumps(DictUpdate(file_dict, key, message), Indent, 0)]
  ELSE [ok |-> FALSE, text |-> <<>>]

\* storage_handler(data, file_path), lines 188-198, at clock reading now:
\* the file afterwards, and ok = FALSE where the call raised
StorageHandler(data, f, now) ==
  LET r == LoadStep(data, f) IN
  IF ~r.ok THEN [ok |-> FALSE, file |-> f]
  ELSE LET w == WriteStep(r.file_dict, TsKey(now), r.message) IN
       IF w.ok THEN [ok |-> TRUE, file |-> FileOf(w.text)]
       ELSE [ok |-> FALSE, file |-> f]

\* the log a file holds, for stating properties of it
LogOf(f) == IF f.exists THEN Loads(f.text).val ELSE EmptyDict
LogValid(f) == ~f.exists \/ (Loads(f.text).ok /\ IsDict(Loads(f.text).val))

\* ------------------------------------------------------------- the state
VARIABLES
  main_pc,      \* the main thread's position in the __main__ block
  stop,         \* stop_event.is_set()
  stopped_msgs, \* how many times "Server stopped." was logged
  http_pc,      \* the HTTP thread's position in run_http
  http_sock,    \* the HTTPServer's listening socket
  n_posts,      \* POST requests handled
  last_post,    \* what do_POST did with the last POST request
  get_resp,     \* the response to the last GET request
  udp_pc,       \* the socket thread's position in socket_server
  udp_sock,     \* socket_server's socket
  net,          \* datagrams queued at the UDP port, oldest first
  data,         \* socket_server's local data (and where it came from)
  sh_active,    \* invocations of storage_handler in progress
  sh_local,     \* storage_handler's locals: key, message, file_dict
  file,         \* the file at STORAGE
  cnt,          \* what the pipeline has done so far, counted
  codec,        \* one Submission on its way through encode, recvfrom, decode
  store,        \* one file under a series of storage_handler calls
  router,       \* one GET request target on its way through do_GET
  parser        \* one POST body after another on its way through do_POST

vars == <<main_pc, stop, stopped_msgs, http_pc, http_sock, n_posts, last_post,
          get_resp, udp_pc, udp_sock, net, data, sh_active, sh_local, file,
          cnt, codec, store, router, parser>>

main_vars == <<main_pc, stop, stopped_msgs>>
http_vars == <<http_pc, http_sock, n_posts, last_post, get_resp>>
udp_vars  == <<udp_pc, udp_sock, data, sh_active, sh_local>>
sys_vars  == <<main_vars, http_vars, udp_vars, net, file, cnt>>
unit_vars == <<codec, store, router, parser>>

STORAGE == "storage/data.json"

\* the inputs of the system model
SysBodies == { <<"k", "=", "v">>,            \* k=v
               <<"k", "=", "L", "L">>,       \* a value of 2 * BlockLen letters
               <<>> }                        \* Content-Length: 0
SendOutcomes == {"ok", "socket_error", "sendto_error"}
ExternalPayloads == { <<"x">> }              \* bytes that are no JSON
Clock == 1..MaxClock
OneEntryLog ==
  PyDict(<<[k |-> TsKey(1), v |-> PyDict(<<[k |-> <<"j">>, v |-> PyStr(<<"w">>)]>>)]>>)
InitFiles == { Absent,
               FileOf(Dumps(OneEntryLog, Indent, 0)),
               FileOf(<<"x">>) }             \* a file that is no JSON

NoPost == [body |-> <<>>, parsed |-> FALSE, sub |-> EmptyDict,
           send |-> "none", sent |-> 0, status |-> 0, location |-> ""]
NoData == [payload |-> <<>>, post |-> NoPost]
NoLocal == [key |-> <<>>, message |-> PyStr(<<>>), file_dict |-> EmptyDict]
NoResp == [status |-> 0, file |-> ""]
\* sent: datagrams socket_client sent; recv: datagrams recvfrom returned, and
\* own: those of them socket_client had sent; calls: storage_handler calls;
\* writes: calls that wrote the file; added: keys the writes added to the log
NoCounts == [sent |-> 0, recv |-> 0, own |-> 0, calls |-> 0, writes |-> 0,
             added |-> 0]

CodecIdle == [pc |-> "idle", sub |-> EmptyDict, wire |-> <<>>, size |-> 0,
              out |-> [ok |-> FALSE, val |-> PyStr(<<>>)]]
StoreIdle == [start |-> Absent, file |-> Absent, hist |-> <<>>]
RouterIdle == [pc |-> "idle", target |-> <<>>, resp |-> NoResp]
ParserIdle == [pairs |-> <<>>, body |-> <<>>, ok |-> FALSE, sub |-> EmptyDict]

\* the threads before the main thread has started them
SysInit ==
  /\ main_pc = "start_http"
  /\ stop = FALSE
  /\ stopped_msgs = 0
  /\ http_pc = "unstarted"
  /\ http_sock = "none"
  /\ n_posts = 0
  /\ last_post = NoPost
  /\ get_resp = NoResp
  /\ udp_pc = "unstarted"
  /\ udp_sock = "none"
  /\ net = <<>>
  /\ data = NoData
  /\ sh_active = 0
  /\ sh_local = NoLocal
  /\ cnt = NoCounts

Init ==
  /\ SysInit
  /\ file \in InitFiles
  /\ codec = CodecIdle
  /\ store = StoreIdle
  /\ router = RouterIdle
  /\ parser = ParserIdle

HttpTerminated == http_pc \in {"done", "raised"}
UdpTerminated  == udp_pc \in {"done", "raised"}

\* ------------------------------------------------------- the main thread
\* http_thread.start(), line 279
StartHttp ==
  /\ main_pc = "start_http"
  /\ main_pc' = "start_udp"
  /\ http_pc' = "bind"
  /\ UNCHANGED <<stop, stopped_msgs, http_sock, n_posts, last_post,
                 get_resp, net, file>>
  /\ UNCHANGED <<udp_vars, unit_vars>>
  /\ UNCHANGED cnt

\* socket_thread.start(), line 280
StartUdp ==
  /\ main_pc = "start_udp"
  /\ main_pc' = "join_http"
  /\ udp_pc' = "bind"
  /\ UNCHANGED <<stop, stopped_msgs, udp_sock, data, sh_active,
                 sh_local, net, file>>
  /\ UNCHANGED <<http_vars, unit_vars>>
  /\ UNCHANGED cnt

\* http_thread.join() returns, line 283: the try block ends without an
\* exception and the script falls off its end
JoinHttpReturns ==
  /\ main_pc = "join_http"
  /\ HttpTerminated
  /\ main_pc' = "exit"
  /\ UNCHANGED <<stop, stopped_msgs, net, file>>
  /\ UNCHANGED <<http_vars, udp_vars, unit_vars>>
  /\ UNCHANGED cnt

\* KeyboardInterrupt raised in the main thread: inside the try (line 283) it
\* enters the except block, anywhere else it ends the main thread
Interrupt ==
  /\ main_pc \notin {"exit", "aborted"}
  /\ main_pc' = IF main_pc = "join_http" THEN "set_stop" ELSE "aborted"
  /\ UNCHANGED <<stop, stopped_msgs, net, file>>
  /\ UNCHANGED <<http_vars, udp_vars, unit_vars>>
  /\ UNCHANGED cnt

\* stop_event.set(), line 285
SetStop ==
  /\ main_pc = "set_stop"
  /\ stop' = TRUE
  /\ main_pc' = "join_udp"
  /\ UNCHANGED <<stopped_msgs, net, file>>
  /\ UNCHANGED <<http_vars, udp_vars, unit_vars>>
  /\ UNCHANGED cnt

\* socket_thread.join() returns, line 286
JoinUdpReturns ==
  /\ main_pc = "join_udp"
  /\ UdpTerminated
  /\ main_pc' = "log"
  /\ UNCHANGED <<stop, stopped_msgs, net, file>>
  /\ UNCHANGED <<http_vars, udp_vars, unit_vars>>
  /\ UNCHANGED cnt

\* logging.info("Server stopped."), line 287
LogStopped ==
  /\ main_pc = "log"
  /\ stopped_msgs' = stopped_msgs + 1
  /\ main_pc' = "exit"
  /\ UNCHANGED <<stop, net, file>>
  /\ UNCHANGED <<http_vars, udp_vars, unit_vars>>
  /\ UNCHANGED cnt

\* ------------------------------------------------------- the HTTP thread
\* run_http, lines 144-145: HTTPServer binds and listens; a failed bind
\* closes the socket and raises out of the thread
HttpBind(bound) ==
  /\ http_pc = "bind"
  /\ http_pc' = IF bound THEN "loop" ELSE "raised"
  /\ http_sock' = IF bound THEN "open" ELSE "closed"
  /\ UNCHANGED <<n_posts, last_post, get_resp, net, file>>
  /\ UNCHANGED <<main_vars, udp_vars, unit_vars>>
  /\ UNCHANGED cnt

\* while not stop_ev.is_set(), line 146, then serve_forever(), line 147,
\* which returns only after shutdown(), and nothing calls shutdown()
HttpLoop ==
  /\ http_pc = "loop"
  /\ http_pc' = IF stop THEN "close" ELSE "serving"
  /\ UNCHANGED <<http_sock, n_posts, last_post, get_resp, net, file>>
  /\ UNCHANGED <<main_vars, udp_vars, unit_vars>>
  /\ UNCHANGED cnt

\* http.server_close(), line 149
HttpClose ==
  /\ http_pc = "close"
  /\ http_sock' = "closed"
  /\ http_pc' = "done"
  /\ UNCHANGED <<n_posts, last_post, get_resp, net, file>>
  /\ UNCHANGED <<main_vars, udp_vars, unit_vars>>
  /\ UNCHANGED cnt

RECURSIVE Find(_, _, _)
\* str.find: the first position at or after i of an element of set, or 0
Find(s, set, i) ==
  IF i > Len(s) THEN 0
  ELSE IF s[i] \in set THEN i ELSE Find(s, set, i + 1)

RECURSIVE RFind(_, _, _)
\* str.rfind: the last position at or before i of c, or 0
RFind(s, c, i) ==
  IF i < 1 THEN 0
  ELSE IF s[i] = c THEN i ELSE RFind(s, c, i - 1)

\* urlsplit: the fragment after '#' and the query after '?' are split off
CutQuery(url) ==
  LET i == Find(url, {"?", "#"}, 1) IN
  IF i = 0 THEN url ELSE SubSeq(url, 1, i - 1)

\* urlparse: the ';parameters' of the last path segment are split off
SplitParams(url) ==
  LET slash == RFind(url, "/", Len(url))
      i     == Find(url, {";"}, IF slash = 0 THEN 1 ELSE slash)
  IN  IF i = 0 THEN url ELSE SubSeq(url, 1, i - 1)

\* urllib.parse.urlparse(self.path).path, line 76, of a target in origin
\* form: one that names no scheme and no network location
UrlPath(target) == SplitParams(CutQuery(target))

\* the match statement of do_GET, lines 77-87
Route(path) ==
  CASE path = <<"/">>                 -> [file |-> "static/index.html", status |-> 200]
    [] path = <<"/", "message.html">> -> [file |-> "static/message.html", status |-> 200]
    [] path = <<"/", "logo.png">>     -> [file |-> "static/logo.png", status |-> 200]
    [] path = <<"/", "style.css">>    -> [file |-> "static/style.css", status |-> 200]
    [] OTHER                          -> [file |-> "static/error.html", status |-> 404]

GetTargets == { <<"/", "?", "q">>,          \* /?q
                <<"/", "nope">> }           \* /nope

\* a do_GET that also forwards the request target to the Datagram Client
DoGET_Forwards(target) ==
  /\ http_pc = "serving"
  /\ get_resp' = Route(UrlPath(target))
  /\ net' = IF udp_sock = "open" /\ Len(net) < MaxQueue
            THEN Append(net, [payload |-> target, post |-> NoPost])
            ELSE net
  /\ UNCHANGED <<http_pc, http_sock, n_posts, last_post, file>>
  /\ UNCHANGED <<main_vars, udp_vars, unit_vars>>
  /\ UNCHANGED cnt

\* do_GET, lines 76-87, with send_html_file, lines 60-69
DoGET(target) ==
  /\ http_pc = "serving"
  /\ get_resp' = Route(UrlPath(target))
  /\ UNCHANGED <<http_pc, http_sock, n_posts, last_post, net, file>>
  /\ UNCHANGED <<main_vars, udp_vars, unit_vars>>
  /\ UNCHANGED cnt

\* json.dumps(message).encode('utf-8'), line 167
Encode(message) == Dumps(message, None, 0)

\* a datagram arrives at the UDP port: it is queued if a socket is bound
\* there and its receive queue has room, and is discarded otherwise
Deliver(queue, datagram) ==
  IF udp_sock = "open" /\ Len(queue) < MaxQueue
  THEN Append(queue, datagram) ELSE queue

\* what do_POST did with one request body
PostRecord(body, outcome) ==
  LET form == ParseForm(body) IN
  IF ~form.ok
  THEN \* ValueError at line 104: no datagram, no response
       [body |-> body, parsed |-> FALSE, sub |-> EmptyDict,
        send |-> "not_called", sent |-> 0, status |-> 0, location |-> ""]
  ELSE IF outcome # "ok"
  THEN \* OSError out of socket_client, line 165 or 168: no response
       [body |-> body, parsed |-> TRUE, sub |-> form.dict,
        send |-> outcome, sent |-> 0, status |-> 0, location |-> ""]
  ELSE \* lines 107-109
       [body |-> body, parsed |-> TRUE, sub |-> form.dict,
        send |-> "ok", sent |-> 1, status |-> 302, location |-> "/"]

\* a socket_client that sends its datagram a second time
DoPOST_SendsTwice(body, outcome) ==
  /\ http_pc = "serving"
  /\ n_posts < MaxPosts
  /\ n_posts' = n_posts + 1
  /\ LET rec == PostRecord(body, outcome)
         dgm == [payload |-> Encode(rec.sub), post |-> rec]
     IN
       /\ last_post' = rec
       /\ net' = IF rec.sent = 1
                 THEN Deliver(Deliver(net, dgm), dgm)
                 ELSE net
       /\ cnt' = [cnt EXCEPT !.sent = @ + 2 * rec.sent]
  /\ UNCHANGED <<http_pc, http_sock, get_resp, file>>
  /\ UNCHANGED <<main_vars, udp_vars, unit_vars>>

\* do_POST, lines 101-109, with socket_client, lines 165-170
DoPOST(body, outcome) ==
  /\ http_pc = "serving"
  /\ n_posts < MaxPosts
  /\ n_posts' = n_posts + 1
  /\ LET rec == PostRecord(body, outcome) IN
       /\ last_post' = rec
       /\ net' = IF rec.sent = 1
                 THEN Deliver(net, [payload |-> Encode(rec.sub), post |-> rec])
                 ELSE net
       /\ cnt' = [cnt EXCEPT !.sent = @ + rec.sent]
  /\ UNCHANGED <<http_pc, http_sock, get_resp, file>>
  /\ UNCHANGED <<main_vars, udp_vars, unit_vars>>

\* ----------------------------------------------------- the socket thread
\* socket_server, lines 226-228: a failed bind raises out of the thread
UdpBind(bound) ==
  /\ udp_pc = "bind"
  /\ udp_pc' = IF bound THEN "loop" ELSE "raised"
  /\ udp_sock' = IF bound THEN "open" ELSE "unbound"
  /\ UNCHANGED <<data, sh_active, sh_local, net, file>>
  /\ UNCHANGED <<main_vars, http_vars, unit_vars>>
  /\ UNCHANGED cnt

\* a loop test that consumes the signal it observes, as Event.clear() would
UdpLoop_ClearsSignal ==
  /\ udp_pc = "loop"
  /\ udp_pc' = IF stop THEN "close" ELSE "recv"
  /\ stop' = FALSE
  /\ UNCHANGED <<udp_sock, data, sh_active, sh_local, net, file>>
  /\ UNCHANGED <<main_pc, stopped_msgs, http_vars, unit_vars>>
  /\ UNCHANGED cnt

\* while not stop_ev.is_set(), line 230
UdpLoop ==
  /\ udp_pc = "loop"
  /\ udp_pc' = IF stop THEN "close" ELSE "recv"
  /\ UNCHANGED <<udp_sock, data, sh_active, sh_local, net, file>>
  /\ UNCHANGED <<main_vars, http_vars, unit_vars>>
  /\ UNCHANGED cnt

\* sock.recvfrom(1024) raises socket.timeout after 1.0 s without a
\* datagram, lines 231-237
UdpRecvTimeout ==
  /\ udp_pc = "recv"
  /\ net = <<>>
  /\ udp_pc' = "loop"
  /\ UNCHANGED <<udp_sock, data, sh_active, sh_local, net, file>>
  /\ UNCHANGED <<main_vars, http_vars, unit_vars>>
  /\ UNCHANGED cnt

\* a socket_server that hands each datagram to storage_handler as it
\* arrives, without waiting for the call in progress to return
UdpRecvData_Concurrent ==
  /\ udp_pc \in {"recv", "load", "write"}
  /\ net # <<>>
  /\ data' = [payload |-> RecvFrom(Head(net).payload), post |-> Head(net).post]
  /\ net' = Tail(net)
  /\ sh_active' = sh_active + 1
  /\ cnt' = [cnt EXCEPT !.recv = @ + 1,
                        !.own = @ + Head(net).post.sent,
                        !.calls = @ + 1]
  /\ udp_pc' = "load"
  /\ UNCHANGED <<udp_sock, sh_local, file>>
  /\ UNCHANGED <<main_vars, http_vars, unit_vars>>

\* sock.recvfrom(1024) returns the oldest datagram and storage_handler is
\* called with it, lines 233-235
UdpRecvData ==
  /\ udp_pc = "recv"
  /\ net # <<>>
  /\ data' = [payload |-> RecvFrom(Head(net).payload), post |-> Head(net).post]
  /\ net' = Tail(net)
  /\ sh_active' = sh_active + 1
  /\ cnt' = [cnt EXCEPT !.recv = @ + 1,
                        !.own = @ + Head(net).post.sent,
                        !.calls = @ + 1]
  /\ udp_pc' = "load"
  /\ UNCHANGED <<udp_sock, sh_local, file>>
  /\ UNCHANGED <<main_vars, http_vars, unit_vars>>

\* a handler of socket.error that also raises the Cancellation Signal
UdpRecvError_SetsSignal ==
  /\ udp_pc = "recv"
  /\ udp_pc' = "close"
  /\ stop' = TRUE
  /\ UNCHANGED <<udp_sock, data, sh_active, sh_local, net, file>>
  /\ UNCHANGED <<main_pc, stopped_msgs, http_vars, unit_vars>>
  /\ UNCHANGED cnt

\* sock.recvfrom raises another socket.error: break, lines 238-239
UdpRecvError ==
  /\ udp_pc = "recv"
  /\ udp_pc' = "close"
  /\ UNCHANGED <<udp_sock, data, sh_active, sh_local, net, file>>
  /\ UNCHANGED <<main_vars, http_vars, unit_vars>>
  /\ UNCHANGED cnt

\* a socket_server that catches what storage_handler raises, skips the
\* datagram and goes on with its loop
StorageLoad_SkipsMalformed(now) ==
  /\ udp_pc = "load"
  /\ LET r == LoadStep(data.payload, file) IN
       IF r.ok
       THEN /\ sh_local' = [key |-> TsKey(now), message |-> r.message,
                            file_dict |-> r.file_dict]
            /\ udp_pc' = "write"
            /\ UNCHANGED sh_active
       ELSE /\ udp_pc' = "loop"
            /\ sh_active' = sh_active - 1
            /\ UNCHANGED sh_local
  /\ UNCHANGED <<udp_sock, data, net, file>>
  /\ UNCHANGED <<main_vars, http_vars, unit_vars>>
  /\ UNCHANGED cnt

\* storage_handler, lines 188-194, at clock reading now; an exception
\* leaves socket_server too, which catches socket errors only
StorageLoad(now) ==
  /\ udp_pc = "load"
  /\ LET r == LoadStep(data.payload, file) IN
       IF r.ok
       THEN /\ sh_local' = [key |-> TsKey(now), message |-> r.message,
                            file_dict |-> r.file_dict]
            /\ udp_pc' = "write"
            /\ UNCHANGED sh_active
       ELSE /\ udp_pc' = "raised"
            /\ sh_active' = sh_active - 1
            /\ UNCHANGED sh_local
  /\ UNCHANGED <<udp_sock, data, net, file>>
  /\ UNCHANGED <<main_vars, http_vars, unit_vars>>
  /\ UNCHANGED cnt

\* storage_handler, lines 195-198, and its return to the loop
StorageWrite ==
  /\ udp_pc = "write"
  /\ LET w == WriteStep(sh_local.file_dict, sh_local.key, sh_local.message) IN
       IF w.ok
       THEN /\ file' = FileOf(w.text)
            /\ cnt' = [cnt EXCEPT
                         !.writes = @ + 1,
                         !.added = @ + Len(Loads(w.text).val.items)
                                     - Len(sh_local.file_dict.items)]
            /\ udp_pc' = "loop"
       ELSE /\ udp_pc' = "raised"
            /\ UNCHANGED <<file, cnt>>
  /\ sh_active' = sh_active - 1
  /\ UNCHANGED <<udp_sock, data, sh_local, net>>
  /\ UNCHANGED <<main_vars, http_vars, unit_vars>>

\* sock.close(), line 240
UdpClose ==
  /\ udp_pc = "close"
  /\ udp_sock' = "closed"
  /\ udp_pc' = "done"
  /\ UNCHANGED <<data, sh_active, sh_local, net, file>>
  /\ UNCHANGED <<main_vars, http_vars, unit_vars>>
  /\ UNCHANGED cnt

\* socket_server ended by an exception without sock.close(): its local sock,
\* line 226, is garbage, and the interpreter closes the descriptor if and
\* when it finalises the object (CPython: once the frame is released, with
\* a ResourceWarning; the language promises no time)
UdpSockFinalized ==
  /\ udp_pc = "raised"
  /\ udp_sock \in {"open", "unbound"}
  /\ udp_sock' = "closed"
  /\ UNCHANGED <<udp_pc, data, sh_active, sh_local, net, file>>
  /\ UNCHANGED <<main_vars, http_vars, unit_vars>>
  /\ UNCHANGED cnt

\* another process sends a datagram to the UDP port
ExternalSend(payload) ==
  /\ udp_sock = "open"
  /\ Len(net) < MaxQueue
  /\ net' = Deliver(net, [payload |-> payload, post |-> NoPost])
  /\ UNCHANGED file
  /\ UNCHANGED <<main_vars, http_vars, udp_vars, unit_vars>>
  /\ UNCHANGED cnt

\* ------------------------------------------------------ specifications
MainStep == StartHttp \/ StartUdp \/ JoinHttpReturns \/ SetStop
              \/ JoinUdpReturns \/ LogStopped

Next ==
  \/ StartHttp
  \/ StartUdp
  \/ JoinHttpReturns
  \/ Interrupt
  \/ SetStop
  \/ JoinUdpReturns
  \/ LogStopped
  \/ \E bound \in BOOLEAN : HttpBind(bound)
  \/ HttpLoop
  \/ HttpClose
  \/ \E target \in GetTargets : DoGET(target)
  \/ \E body \in SysBodies, outcome \in SendOutcomes : DoPOST(body, outcome)
  \/ \E bound \in BOOLEAN : UdpBind(bound)
  \/ UdpLoop
  \/ UdpRecvTimeout
  \/ UdpRecvData
  \/ UdpRecvError
  \/ \E now \in Clock : StorageLoad(now)
  \/ StorageWrite
  \/ UdpClose
  \/ UdpSockFinalized
  \/ \E payload \in ExternalPayloads : ExternalSend(payload)

Spec == Init /\ [][Next]_vars

UdpPositions == {"unstarted", "bind", "loop", "recv", "load", "write",
                 "close", "done", "raised"}
HttpPositions == {"unstarted", "bind", "loop", "serving", "close", "done",
                  "raised"}

\* the socket thread executes its next statement: from bind, from the loop
\* test, from recvfrom (which returns or raises within its 1.0 s timeout),
\* inside storage_handler and from close, its position changes
UdpAdvances ==
  /\ udp_pc \in {"bind", "loop", "recv", "load", "write", "close"}
  /\ udp_pc' \in UdpPositions \ {udp_pc}

\* the HTTP thread executes its next statement; inside serve_forever it has
\* none, since serve_forever returns only after shutdown()
HttpAdvances ==
  /\ http_pc \in {"bind", "loop", "close"}
  /\ http_pc' \in HttpPositions \ {http_pc}

\* every started thread keeps running: a thread that can execute its next
\* statement eventually does.  Requests, datagrams from elsewhere,
\* interrupts and receive errors are the environment's and carry no fairness.
Fairness ==
  /\ WF_vars(MainStep)
  /\ WF_http_pc(HttpAdvances)
  /\ WF_udp_pc(UdpAdvances)

FairSpec == Init /\ [][Next]_vars /\ Fairness

\* ---------------------------------------------------- the claims: system
InLoop == {"loop", "recv", "load", "write"}

\* C1: once the Cancellation Signal is set while the HTTP Listener is in
\* serve_forever, the listener eventually leaves the loop, closes its socket
\* and terminates, without any further request.
C1_HttpListenerStops ==
  (stop /\ http_pc = "serving") ~> (http_pc = "done" /\ http_sock = "closed")

\* C2: once the Cancellation Signal is set while the Datagram Server is in
\* its loop, the server leaves the loop only towards sock.close() and its
\* return, it starts no further wait after it has observed the signal, and it
\* has closed its socket when it is done.
C2_DatagramServerStops ==
  [][ (stop /\ udp_pc \in InLoop \cup {"close"}) =>
        /\ udp_pc' \in InLoop \cup {"close", "done"}
        /\ (udp_pc = "loop" => udp_pc' \in {"loop", "close"})
        /\ (udp_pc' = "done" => udp_sock' = "closed") ]_vars

\* C3: in every state in which "Server stopped." has been reported, the
\* Cancellation Signal is set and both the HTTP Listener and the Datagram
\* Server have terminated.
C3_StoppedAfterBothTerminated ==
  stopped_msgs > 0 => (stop /\ HttpTerminated /\ UdpTerminated)

FromPost(d) == d.post.sent = 1
Fits(d) == ByteLen(Encode(d.post.sub)) <= RecvBuf

\* the log holds, under the key storage_handler last used, the Submission
\* of the POST the last received datagram came from
EntryWritten ==
  /\ udp_pc = "loop"
  /\ FromPost(data)
  /\ LogValid(file)
  /\ sh_local.key \in Keys(LogOf(file))
  /\ DictGet(LogOf(file), sh_local.key) = data.post.sub

\* C4 as stated: a datagram of a POST, received by the Datagram Server while
\* the log is a valid JSON object or absent, is eventually in the log as a
\* new entry whose value is the POST's Submission, and the POST was answered
\* with 302.
C4_DeliveredIsLogged ==
  /\ [](FromPost(data) => data.post.status = 302 /\ data.post.location = "/")
  /\ (udp_pc = "load" /\ FromPost(data) /\ LogValid(file)) ~> EntryWritten

\* C4 as amended: the same, for a Submission whose JSON encoding is at most
\* 1024 bytes.
C4_DeliveredSmallIsLogged ==
  /\ [](FromPost(data) => data.post.status = 302 /\ data.post.location = "/")
  /\ (udp_pc = "load" /\ FromPost(data) /\ Fits(data) /\ LogValid(file))
       ~> EntryWritten

C4_Witness ==
  EntryWritten /\ Fits(data) /\ data.post.status = 302 /\ data.post.sub # EmptyDict

\* C5: every POST whose body parses is answered with 302 and Location: /,
\* whatever the Datagram Client's send did.
C5_RedirectWhateverSendDoes ==
  last_post.parsed => (last_post.status = 302 /\ last_post.location = "/")

\* C6: every POST is parsed, sends exactly one datagram and is answered with
\* 302 and Location: / (here: every POST whose send, if made, succeeds).
C6_EveryBodyRedirects ==
  (n_posts > 0 /\ last_post.send \in {"ok", "not_called"}) =>
    /\ last_post.parsed
    /\ last_post.sent = 1
    /\ last_post.status = 302
    /\ last_post.location = "/"

\* C10: at most one storage_handler call is in progress, and only inside the
\* Datagram Server's loop; the file changes only in that call's write, which
\* leaves the HTTP thread's state alone; a datagram is taken from the queue
\* only when no call is in progress; and no GET serves the log file.
C10_SingleWriter ==
  /\ [](sh_active \in {0, 1})
  /\ [](sh_active = 1 <=> udp_pc \in {"load", "write"})
  /\ [](get_resp.file # STORAGE)
  /\ [][ /\ (file' # file =>
               udp_pc = "write" /\ sh_active = 1 /\ UNCHANGED http_vars)
         /\ (Len(net') < Len(net) => sh_active = 0 /\ sh_active' = 1)
         /\ (sh_active' > sh_active => udp_pc = "recv") ]_vars

C10_Witness ==
  udp_pc = "write" /\ sh_active = 1 /\ net # <<>> /\ n_posts = MaxPosts

\* C11: handling a GET request, whatever its path, emits no datagram and
\* leaves the log file, the Cancellation Signal and the Datagram Server's
\* state unchanged: the step that writes a GET's response changes nothing of
\* the pipeline.
C11_GetBypassesPipeline ==
  [][ get_resp' # get_resp =>
        UNCHANGED <<net, file, stop, n_posts, last_post, udp_vars>> ]_vars

C11_Witness ==
  /\ get_resp.status = 404
  /\ net # <<>>
  /\ file.exists
  /\ n_posts > 0
  /\ stop

ShutdownSequence == {"set_stop", "join_udp", "log"}

\* C13: at most one shutdown sequence is initiated and "Server stopped." is
\* reported at most once; and once the sequence has begun, a further
\* interrupt changes nothing: the coordinator goes on through setting the
\* signal, waiting and reporting, and has reported exactly once when it exits.
C13_SingleShutdownSequence ==
  /\ [](stopped_msgs <= 1)
  /\ [][ (main_pc \in ShutdownSequence) =>
           (/\ main_pc' \in ShutdownSequence \cup {"exit"}
            /\ (main_pc' = "exit" => stopped_msgs' = 1)) ]_vars

\* C14: the Cancellation Signal starts unset; once set it is set in every
\* later state; it is set only by the main thread's stop_event.set(), which
\* is reached only by an interrupt of http_thread.join(); and the step that
\* sets it is no step of either listener.
C14_SignalWriteOnce ==
  /\ ~stop
  /\ [][ stop => stop' ]_vars
  /\ [][ (stop' # stop) =>
           (/\ main_pc = "set_stop"
            /\ main_pc' = "join_udp"
            /\ UNCHANGED <<http_vars, udp_vars, net, file>>) ]_vars
  /\ [][ (main_pc' = "set_stop" /\ main_pc # "set_stop") =>
           main_pc = "join_http" ]_vars

C14_Witness ==
  /\ stop
  /\ main_pc = "exit"
  /\ stopped_msgs = 1
  /\ udp_pc = "done"
  /\ http_pc = "serving"
  /\ n_posts > 0

\* C15: whenever the Datagram Server's thread has terminated after a
\* successful bind, whether it returned or ended by an exception, its socket
\* has been closed.
C15_EndsClosed ==
  (UdpTerminated /\ udp_sock \notin {"none", "unbound"}) => udp_sock = "closed"

\* the bytes recvfrom returned are no JSON text
Malformed(d) == ~Loads(d.payload).ok

\* C16: when the Datagram Server has received a datagram whose bytes are no
\* valid JSON, its call of storage_handler ends the thread by an exception
\* and leaves the log file and the HTTP thread as they were; once the thread
\* has ended so, it takes no further datagram and the file never changes
\* again; and the HTTP Listener, where it is serving, still answers a GET
\* and still redirects a POST whose send succeeds.
C16_MalformedCrashesLoop ==
  /\ [][ (udp_pc = "load" /\ Malformed(data) /\ udp_pc' # udp_pc) =>
           (udp_pc' = "raised" /\ file' = file /\ UNCHANGED http_vars) ]_vars
  /\ [][ (udp_pc = "raised") =>
           (/\ udp_pc' = "raised"
            /\ file' = file
            /\ data' = data
            /\ sh_active' = 0
            /\ Len(net') >= Len(net)) ]_vars
  /\ []((udp_pc = "raised" /\ http_pc = "serving") =>
           ENABLED (\E target \in GetTargets : DoGET(target)))
  /\ [][ (udp_pc = "raised" /\ n_posts' = n_posts + 1
             /\ last_post'.send = "ok") =>
           (last_post'.status = 302 /\ last_post'.location = "/") ]_vars

C16_Witness ==
  /\ udp_pc = "raised"
  /\ Malformed(data)
  /\ FromPost(data)
  /\ ~Fits(data)
  /\ net # <<>>
  /\ FromPost(Head(net))
  /\ get_resp.status = 200
  /\ file.exists

\* C18: a receive error other than a timeout takes the Datagram Server out
\* of its loop without a storage_handler call, without a change of the log
\* file, of the Cancellation Signal or of the other threads, and from there
\* the server closes its socket and is done; a timeout takes it back to the
\* loop test with the log file unchanged, and with the signal unset it waits
\* again.
C18_SocketErrorFatalForServerOnly ==
  /\ [][ (udp_pc = "recv" /\ udp_pc' = "close") =>
           UNCHANGED <<file, stop, data, sh_active, net, udp_sock,
                       main_vars, http_vars>> ]_vars
  /\ [][ (udp_pc = "close") =>
           (/\ udp_pc' \in {"close", "done"}
            /\ file' = file
            /\ sh_active' = 0
            /\ (udp_pc' = "done" => udp_sock' = "closed")) ]_vars
  /\ (udp_pc = "close") ~> (udp_pc = "done" /\ udp_sock = "closed")
  /\ [][ (udp_pc = "recv" /\ udp_pc' = "loop") =>
           UNCHANGED <<file, stop, data, sh_active, net, udp_sock,
                       main_vars, http_vars>> ]_vars
  /\ [][ (udp_pc = "loop" /\ ~stop) => udp_pc' \in {"loop", "recv"} ]_vars

C18_Witness ==
  /\ udp_pc = "done"
  /\ udp_sock = "closed"
  /\ ~stop
  /\ sh_active = 0
  /\ http_pc = "serving"
  /\ n_posts > 0
  /\ get_resp.status = 200

\* the queued datagrams that socket_client sent
OwnQueued(queue) == Cardinality({i \in 1..Len(queue) : queue[i].post.sent = 1})

\* one POST sends at most one datagram, one received datagram starts exactly
\* one storage_handler call, one call writes the file at most once and one
\* write adds at most one key; a datagram taken from the queue is not put
\* back
NoRetry ==
  [][ /\ cnt'.sent - cnt.sent <= n_posts' - n_posts
      /\ n_posts' - n_posts \in {0, 1}
      /\ OwnQueued(net') <= OwnQueued(net) + (cnt'.sent - cnt.sent)
      /\ cnt'.calls - cnt.calls = cnt'.recv - cnt.recv
      /\ cnt'.recv - cnt.recv = (IF Len(net') < Len(net) THEN 1 ELSE 0)
      /\ cnt'.writes - cnt.writes \in {0, 1}
      /\ (cnt'.writes > cnt.writes => (udp_pc = "write" /\ udp_pc' = "loop"))
      /\ (file' # file => cnt'.writes = cnt.writes + 1)
      /\ cnt'.added - cnt.added \in {0, 1}
      /\ cnt'.added - cnt.added <= cnt'.writes - cnt.writes ]_vars

\* C19 as stated: no retry anywhere, and in every reachable state entries
\* added <= appends performed <= datagrams received <= POSTs handled.
C19_AtMostOnce ==
  /\ NoRetry
  /\ [](/\ cnt.added <= cnt.writes
        /\ cnt.writes <= cnt.calls
        /\ cnt.calls <= cnt.recv
        /\ cnt.recv <= n_posts)

\* C19 as amended: the same, with the datagrams received that the Datagram
\* Client sent, and not all datagrams received, at most the POSTs handled.
C19_AtMostOnceOfOwn ==
  /\ NoRetry
  /\ [](/\ cnt.added <= cnt.writes
        /\ cnt.writes <= cnt.calls
        /\ cnt.calls <= cnt.recv
        /\ cnt.own <= cnt.recv
        /\ cnt.own <= cnt.sent
        /\ cnt.sent <= n_posts)

C19_Witness ==
  /\ n_posts = MaxPosts
  /\ cnt.sent = MaxPosts
  /\ cnt.own = MaxPosts
  /\ cnt.recv = MaxPosts
  /\ cnt.writes = MaxPosts
  /\ cnt.added = 1
  /\ Len(LogOf(file).items) = 1

\* ------------------------------------------------- the codec on its own
\* field names and values: letters, the empty string, a space, the
\* characters JSON escapes or gives a meaning to, and long runs of letters
CodecKeys == { <<"k">>, <<>>, <<"j", "\"">> }
CodecVals == { <<"v">>, <<>>, <<"a", " ", "b">>, <<"\"">>, <<"\\">>,
               <<"\\", "\"">>, <<"{", "}", ":", ",">>, <<"\n">>, <<"L">>,
               <<"L", "L">> }
CodecFields == [k : CodecKeys, v : {PyStr(v) : v \in CodecVals}]

\* the Submissions of at most MaxFields fields
Submissions ==
  { PyDict(items) :
      items \in { f \in UNION {[1..n -> CodecFields] : n \in 0..MaxFields} :
                    \A i, j \in DOMAIN f : i # j => f[i].k # f[j].k } }

InitCodec ==
  /\ SysInit
  /\ file = Absent
  /\ store = StoreIdle
  /\ router = RouterIdle
  /\ parser = ParserIdle
  /\ codec \in { [CodecIdle EXCEPT !.pc = "sub", !.sub = sub] :
                   sub \in Submissions }

\* socket_client, lines 167-168: the Submission is encoded and sent
CodecEncode ==
  /\ codec.pc = "sub"
  /\ codec' = [codec EXCEPT !.pc = "sent", !.wire = Encode(codec.sub),
                            !.size = ByteLen(Encode(codec.sub))]
  /\ UNCHANGED <<sys_vars, store, router, parser>>

\* socket_server, line 233: the datagram comes out of recvfrom(1024)
CodecRecv ==
  /\ codec.pc = "sent"
  /\ codec' = [codec EXCEPT !.pc = "received", !.wire = RecvFrom(codec.wire)]
  /\ UNCHANGED <<sys_vars, store, router, parser>>

\* storage_handler, line 188: json.loads(data.decode('utf-8'))
CodecDecode ==
  /\ codec.pc = "received"
  /\ codec' = [codec EXCEPT !.pc = "decoded", !.out = Loads(codec.wire)]
  /\ UNCHANGED <<sys_vars, store, router, parser>>

NextCodec == CodecEncode \/ CodecRecv \/ CodecDecode

CodecSpec == InitCodec /\ [][NextCodec]_vars

\* C9: a Submission whose encoding fits the datagram size bound decodes,
\* after encode and recvfrom, to a mapping equal to it.
C9_RoundTrip ==
  (codec.pc = "decoded" /\ codec.size <= RecvBuf) =>
    /\ codec.out.ok
    /\ IsDict(codec.out.val)
    /\ DictEq(codec.out.val, codec.sub)

C9_Witness ==
  /\ codec.pc = "decoded"
  /\ codec.size <= RecvBuf
  /\ codec.out.ok
  /\ Len(codec.sub.items) = 2
  /\ codec.sub.items[1].v = PyStr(<<"\\", "\"">>)
  /\ codec.sub.items[2].v = PyStr(<<"L">>)

\* ------------------------------------------- storage_handler on its own
StoreFiles == { Absent,
                FileOf(Dumps(OneEntryLog, Indent, 0)),
                FileOf(<<"x">>),                        \* no JSON
                FileOf(Dumps(PyStr(<<"v">>), Indent, 0)) }  \* JSON, no object
StoreMessages ==
  { PyDict(<<[k |-> <<"k">>, v |-> PyStr(<<"v">>)]>>),
    PyDict(<<[k |-> <<"k">>, v |-> PyStr(<<"w", "\"">>)],
             [k |-> <<"j">>, v |-> PyStr(<<>>)]>>) }
\* datagrams: the encoded messages, and bytes that are no JSON
StoreDatagrams ==
  { [bytes |-> Encode(m), msg |-> m, json |-> TRUE] : m \in StoreMessages }
    \cup { [bytes |-> <<"x">>, msg |-> PyStr(<<>>), json |-> FALSE] }

InitStore ==
  /\ SysInit
  /\ file = Absent
  /\ codec = CodecIdle
  /\ router = RouterIdle
  /\ parser = ParserIdle
  /\ store \in { [start |-> f, file |-> f, hist |-> <<>>] : f \in StoreFiles }

\* one call storage_handler(d.bytes, path) at clock reading now
StoreAppend(d, now) ==
  /\ Len(store.hist) < MaxAppends
  /\ LET r == StorageHandler(d.bytes, store.file, now) IN
       store' = [store EXCEPT
                   !.file = r.file,
                   !.hist = Append(@, [key |-> TsKey(now), msg |-> d.msg,
                                       json |-> d.json, ok |-> r.ok])]
  /\ UNCHANGED <<sys_vars, codec, router, parser>>

NextStore == \E d \in StoreDatagrams, now \in Clock : StoreAppend(d, now)

StoreSpec == InitStore /\ [][NextStore]_vars

HistKeysDistinct ==
  \A i, j \in 1..Len(store.hist) : i # j => store.hist[i].key # store.hist[j].key

\* C7: after N Submissions were appended, one after another and under
\* pairwise distinct keys, to an absent log, the log holds exactly those N
\* keys, each with the Submission appended under it.
C7_DistinctKeysAllKept ==
  (/\ store.start = Absent
   /\ \A i \in 1..Len(store.hist) : store.hist[i].json
   /\ HistKeysDistinct) =>
    LET log == LogOf(store.file) IN
      /\ LogValid(store.file)
      /\ \A i \in 1..Len(store.hist) : store.hist[i].ok
      /\ Len(log.items) = Len(store.hist)
      /\ Keys(log) = {store.hist[i].key : i \in 1..Len(store.hist)}
      /\ \A i \in 1..Len(store.hist) :
           DictGet(log, store.hist[i].key) = store.hist[i].msg

C7_Witness ==
  /\ store.start = Absent
  /\ Len(store.hist) = MaxAppends
  /\ HistKeysDistinct
  /\ \A i \in 1..MaxAppends : store.hist[i].ok
  /\ store.hist[1].msg # store.hist[2].msg

\* C8: an append under a key the log already has puts the new Submission
\* under that key, and leaves the number of keys and every other key's value
\* as they were.
C8_LastWriteWins ==
  [][ LET e   == store'.hist[Len(store'.hist)]
          old == LogOf(store.file)
          new == LogOf(store'.file)
      IN  (/\ Len(store'.hist) = Len(store.hist) + 1
           /\ LogValid(store.file)
           /\ e.json
           /\ e.key \in Keys(old)) =>
            /\ e.ok
            /\ LogValid(store'.file)
            /\ Keys(new) = Keys(old)
            /\ Len(new.items) = Len(old.items)
            /\ DictGet(new, e.key) = e.msg
            /\ \A o \in Keys(old) \ {e.key} :
                 DictGet(new, o) = DictGet(old, o) ]_vars

C8_Witness ==
  /\ Len(store.hist) = 2
  /\ store.hist[1].ok /\ store.hist[2].ok
  /\ store.hist[1].key = store.hist[2].key
  /\ store.hist[1].msg # store.hist[2].msg
  /\ Len(LogOf(store.file).items) = 2
  /\ DictGet(LogOf(store.file), store.hist[2].key) = store.hist[2].msg

\* C17: an append to a log file that exists but whose contents do not parse
\* as a JSON object fails, and the file's contents after it are identical to
\* its contents before it.
C17_CorruptLogKept ==
  [][ LET e == store'.hist[Len(store'.hist)]
      IN  (/\ Len(store'.hist) = Len(store.hist) + 1
           /\ store.file.exists
           /\ ~LogValid(store.file)) =>
            (~e.ok /\ store'.file = store.file) ]_vars

C17_Witness ==
  /\ Len(store.hist) = 2
  /\ store.start = FileOf(Dumps(PyStr(<<"v">>), Indent, 0))
  /\ store.hist[1].json /\ ~store.hist[1].ok
  /\ store.hist[2].json /\ ~store.hist[2].ok
  /\ store.file = store.start

\* ------------------------------------------------------- do_GET on its own
\* request targets in origin form: a path, then nothing, a query or a
\* fragment
GetPaths == { <<"/">>,
              <<"/", "message.html">>,
              <<"/", "logo.png">>,
              <<"/", "style.css">>,
              <<"/", "nope">>,
              <<"/", "index.html">>,
              <<"/", "message.html", "/">>,
              <<"/", "static", "/", "logo.png">>,
              <<"/", "a", "/", "b", "/", "style.css">>,
              <<"/", "logo.png", "/", "logo.png">>,
              <<"/", ";", "x">>,
              <<"/", "logo.png", ";", "x">>,
              <<"/", "x", ";", "y", "/", "style.css">>,
              <<"/", "style.css", ";">> }
GetSuffixes == { <<>>,
                 <<"?", "q">>,
                 <<"?", "/", "logo.png">>,
                 <<"?", "q", ";", "x">>,
                 <<"#", "f">> }
UnitTargets == { path \o suffix : path \in GetPaths, suffix \in GetSuffixes }

InitGet ==
  /\ SysInit
  /\ file = Absent
  /\ codec = CodecIdle
  /\ store = StoreIdle
  /\ parser = ParserIdle
  /\ router \in { [pc |-> "request", target |-> t, resp |-> NoResp] :
                    t \in UnitTargets }

\* do_GET, lines 76-87, answers the request
GetAnswer ==
  /\ router.pc = "request"
  /\ router' = [router EXCEPT !.pc = "answered",
                              !.resp = Route(UrlPath(router.target))]
  /\ UNCHANGED <<sys_vars, codec, store, parser>>

NextGet == GetAnswer

GetSpec == InitGet /\ [][NextGet]_vars

\* the path of a request target in origin form: the target up to its query
\* or fragment
TargetPath(target) ==
  LET i == Find(target, {"?", "#"}, 1) IN
  IF i = 0 THEN target ELSE SubSeq(target, 1, i - 1)

StaticOf(path) ==
  CASE path = <<"/">>                 -> "static/index.html"
    [] path = <<"/", "message.html">> -> "static/message.html"
    [] path = <<"/", "logo.png">>     -> "static/logo.png"
    [] path = <<"/", "style.css">>    -> "static/style.css"
    [] OTHER                          -> "static/error.html"

\* C12: a GET whose URL path is exactly /, /message.html, /logo.png or
\* /style.css is answered with status 200 and that path's static file; a GET
\* on every other path is answered with status 404 and the error page; the
\* query string has no part in it.
C12_GetRouting ==
  router.pc = "answered" =>
    LET path == TargetPath(router.target) IN
      /\ router.resp.file = StaticOf(path)
      /\ router.resp.status =
           IF StaticOf(path) = "static/error.html" THEN 404 ELSE 200

\* ------------------------------------------------ do_POST's parsing on its own
\* the fields a form is submitted with, in body order: <<name, value>>
FormKeys == { <<"k">>, <<"j">> }
FormVals == { <<"v">>, <<"w">>, <<"a", " ", "b">> }
FormPairs == { <<name, value>> : name \in FormKeys, value \in FormVals }
FormInputs == UNION { [1..n -> FormPairs] : n \in 1..MaxPairs }

\* application/x-www-form-urlencoded, as the client writes it: a space is
\* sent as '+', pairs are name=value and are joined by '&'
QuotePlus(text) == [i \in 1..Len(text) |-> IF text[i] = " " THEN "+" ELSE text[i]]
FormBody(pairs) ==
  Join(<<"&">>, [i \in 1..Len(pairs) |->
                   QuotePlus(pairs[i][1]) \o <<"=">> \o QuotePlus(pairs[i][2])])

InitForm ==
  /\ SysInit
  /\ file = Absent
  /\ codec = CodecIdle
  /\ store = StoreIdle
  /\ router = RouterIdle
  /\ parser = ParserIdle

\* do_POST, lines 101-104, handles one more request: data, data_parsed,
\* data_list and data_dict are locals of the call
FormPost(pairs) ==
  /\ LET body == FormBody(pairs)
         form == ParseForm(body)
     IN  parser' = [pairs |-> pairs, body |-> body, ok |-> form.ok,
                    sub |-> form.dict]
  /\ UNCHANGED <<sys_vars, codec, store, router>>

NextForm == \E pairs \in FormInputs : FormPost(pairs)

FormSpec == InitForm /\ [][NextForm]_vars

\* the value of the last pair of that name, in body order
LastValue(pairs, name) ==
  LET last == CHOOSE i \in 1..Len(pairs) :
                /\ pairs[i][1] = name
                /\ \A j \in (i + 1)..Len(pairs) : pairs[j][1] # name
  IN  pairs[last][2]

\* C20: the Submission of a POST has every field name of the body exactly
\* once, a name that several pairs carry included, mapped to the value of
\* the last pair of that name in body order; and this holds of every POST
\* whatever requests were handled before it, so the Submission depends on
\* the POST's own body alone.
C20_LastDuplicateWins ==
  parser.pairs # <<>> =>
    LET names == {parser.pairs[i][1] : i \in 1..Len(parser.pairs)}
        items == parser.sub.items
    IN  /\ parser.ok
        /\ Keys(parser.sub) = names
        /\ \A name \in names :
             /\ Cardinality({i \in 1..Len(items) : items[i].k = name}) = 1
             /\ DictGet(parser.sub, name) = PyStr(LastValue(parser.pairs, name))

C20_Witness ==
  /\ parser.pairs = << <<<<"k">>, <<"v">>>>, <<<<"j">>, <<"w">>>>,
                       <<<<"k">>, <<"a", " ", "b">>>> >>
  /\ parser.ok
  /\ Len(parser.sub.items) = 2
  /\ DictGet(parser.sub, <<"k">>) = PyStr(<<"a", " ", "b">>)

====
